---- MODULE Spec2Model ----
(***************************************************************************)
(* A model of data_cleaning_functions.py: the source loader get_data and   *)
(* the event correlator merge_intake_n_outcome.                            *)
(*                                                                         *)
(* A pandas DataFrame is a record [columns, rows]: columns is the sequence *)
(* of column labels (labels may repeat, as they do in the merged frame),   *)
(* rows is the sequence of rows, each row the sequence of its cells in     *)
(* column order.  The row index is the default RangeIndex, so a row is     *)
(* identified by its position.                                             *)
(***************************************************************************)
EXTENDS Integers, Sequences, FiniteSets, TLC

(* ---- bounds of the explored inputs ---- *)
MaxIntake == 2
MaxOutcome == 2
MaxTime == 2
MaxCalls == 2
MaxUrls == 3

(* ---- values ---- *)
Ids == {"a", "b"}
NaT == 0
NaN == "NaN"
Times == 1 .. MaxTime
\* the intake rows' own datetime: a column the function passes through unread
IntakeTimes == {MaxTime}
OutcomeTypes == {"Adoption"}
HTTP_OK == 200
Statuses == {200, 404}
FileNames == {"intake", "outcome", "other"}

VARIABLES
    intake_data,    \* the caller's intake DataFrame (argument, passed by reference)
    outcome_data,   \* the caller's outcome DataFrame (argument, passed by reference)
    outcome_dict,   \* local of merge_intake_n_outcome: animal_id -> list of datetimes
    pc,             \* position inside merge_intake_n_outcome
    index,          \* position of the iterrows loop in progress
    returned,       \* the frames returned by the calls made so far, in call order
    pairs,          \* per returned frame: the <<intake row, outcome row>> behind each output row
    pops,           \* history: number of pop(0) executed per animal_id in the current call
    nomatch,        \* history: the intake rows whose scan step took no timestamp, current call
    intake_in,      \* history: the intake frame as the caller built it
    outcome_in,     \* history: the outcome frame as the caller built it
    urls,           \* get_data: the (file_name, status of requests.get) items of urls, in dict order
    url_i,          \* get_data: position of the loop over urls.items()
    data_dict,      \* get_data: local data_dict, the file names stored so far
    printed,        \* get_data: the messages printed so far
    gd_pc,          \* get_data: position
    gd_result       \* get_data: what the call ended with

mergeVars == <<intake_data, outcome_data, outcome_dict, pc, index, returned, pairs, pops,
               nomatch, intake_in, outcome_in>>
loadVars == <<urls, url_i, data_dict, printed, gd_pc, gd_result>>
vars == <<intake_data, outcome_data, outcome_dict, pc, index, returned, pairs, pops,
          nomatch, intake_in, outcome_in, urls, url_i, data_dict, printed, gd_pc, gd_result>>

(* ---- generic helpers ---- *)
SeqsUpTo(S, n) == UNION {[1 .. m -> S] : m \in 0 .. n}

Range(s) == {s[i] : i \in DOMAIN s}

RECURSIVE Flatten(_)
Flatten(ss) == IF ss = <<>> THEN <<>> ELSE Head(ss) \o Flatten(Tail(ss))

RECURSIVE SelectIdx(_, _, _)
\* the positions i in lo..hi with Test[i], in increasing order
SelectIdx(Test, lo, hi) ==
    IF lo > hi THEN <<>>
    ELSE (IF Test[lo] THEN <<lo>> ELSE <<>>) \o SelectIdx(Test, lo + 1, hi)

(* ---- DataFrame ---- *)
DataFrame(cols, rws) == [columns |-> cols, rows |-> rws]

\* position of the first column labelled name
ColIdx(cols, name) ==
    CHOOSE i \in 1 .. Len(cols) : cols[i] = name /\ \A j \in 1 .. (i - 1) : cols[j] # name

\* row.<name> / df.at[i, name]
Cell(df, i, name) == df.rows[i][ColIdx(df.columns, name)]

\* df[name] = value : overwrite the column if present, append it otherwise
SetColumn(df, name, value) ==
    IF name \in Range(df.columns)
    THEN DataFrame(df.columns,
                   [i \in 1 .. Len(df.rows) |->
                       [df.rows[i] EXCEPT ![ColIdx(df.columns, name)] = value]])
    ELSE DataFrame(Append(df.columns, name),
                   [i \in 1 .. Len(df.rows) |-> Append(df.rows[i], value)])

\* df.at[i, name] = value
SetAt(df, i, name, value) ==
    [df EXCEPT !.rows[i][ColIdx(df.columns, name)] = value]

\* the missing value pandas puts in a column of an unmatched right row
NullOf(name) == IF name = "datetime" THEN NaT ELSE NaN

(* ---- the per-entity outcome queue ---- *)
EmptyDict == [e \in {} |-> <<>>]

\* outcome_dict = {}
NewOutcomeDict_shared(old) == old
NewOutcomeDict(old) == EmptyDict

\* lines 91-95: create the list on first sight of the id, then append
DictAppend(d, id, t) ==
    IF id \notin DOMAIN d
    THEN [e \in DOMAIN d \cup {id} |-> IF e = id THEN <<t>> ELSE d[e]]
    ELSE [d EXCEPT ![id] = Append(@, t)]

\* outcome_dict[id][0]
QueueFront_last(q) == q[Len(q)]
QueueFront(q) == q[1]

\* outcome_dict[id].pop(0)
PopFront_back(q) == SubSeq(q, 1, Len(q) - 1)
PopFront(q) == Tail(q)

(* ---- pd.merge(intake_data, outcome_data, how="left", left_on, right_on, suffixes) ---- *)
LEFT_ON == <<"animal_id", "datetime_outcome">>
RIGHT_ON == <<"animal_id", "datetime">>
SUFFIXES == <<"_intake", "_outcome">>

\* Two rows join when their key tuples are equal.  pandas compares key values
\* after factorising them, so a missing key (NaT) is equal to a missing key.
KeysMatch_timestamp_only(left, l, right, r) ==
    Cell(left, l, LEFT_ON[2]) = Cell(right, r, RIGHT_ON[2])
KeysMatch(left, l, right, r) ==
    \A n \in 1 .. Len(LEFT_ON) : Cell(left, l, LEFT_ON[n]) = Cell(right, r, RIGHT_ON[n])

\* a right key column with the same label as its left key is not repeated in the result
RightDrop == {RIGHT_ON[n] : n \in {m \in 1 .. Len(RIGHT_ON) : LEFT_ON[m] = RIGHT_ON[m]}}

\* positions of the right columns that appear in the result
RightKept(right) ==
    SelectIdx([i \in 1 .. Len(right.columns) |-> right.columns[i] \notin RightDrop],
              1, Len(right.columns))

\* labels present on both sides get the suffixes
Overlap(left, right) ==
    Range(left.columns) \cap {right.columns[i] : i \in Range(RightKept(right))}

MergedColumns(left, right) ==
    LET kept == RightKept(right)
        both == Overlap(left, right)
    IN  [i \in 1 .. Len(left.columns) |->
            IF left.columns[i] \in both THEN left.columns[i] \o SUFFIXES[1]
                                        ELSE left.columns[i]]
        \o
        [n \in 1 .. Len(kept) |->
            IF right.columns[kept[n]] \in both THEN right.columns[kept[n]] \o SUFFIXES[2]
                                               ELSE right.columns[kept[n]]]

\* the right rows joining left row l, in right-table order
MatchesOf(left, l, right) ==
    SelectIdx([r \in 1 .. Len(right.rows) |-> KeysMatch(left, l, right, r)],
              1, Len(right.rows))

\* how="left": left rows in left order; one output row per joining right row,
\* one output row with no right row (0) when nothing joins
JoinPairs(left, right) ==
    Flatten([l \in 1 .. Len(left.rows) |->
                LET m == MatchesOf(left, l, right)
                IN  IF m = <<>> THEN << <<l, 0>> >>
                    ELSE [n \in 1 .. Len(m) |-> <<l, m[n]>>]])

MergedRow(left, right, p) ==
    LET kept == RightKept(right)
    IN  left.rows[p[1]]
        \o
        [n \in 1 .. Len(kept) |->
            IF p[2] = 0 THEN NullOf(right.columns[kept[n]])
                        ELSE right.rows[p[2]][kept[n]]]

\* the merged frame; reset_index(drop=True) leaves the dense positions 1..n
Merge(left, right) ==
    LET ps == JoinPairs(left, right)
    IN  DataFrame(MergedColumns(left, right),
                  [n \in 1 .. Len(ps) |-> MergedRow(left, right, ps[n])])

(* ---- input frames ---- *)
IntakeFrames ==
    {DataFrame(<<"animal_id", "datetime">>, rws) :
        rws \in SeqsUpTo(Ids \X IntakeTimes, MaxIntake)}

OutcomeFrames ==
    {DataFrame(<<"animal_id", "datetime", "outcome_type">>, rws) :
        rws \in SeqsUpTo(Ids \X (Times \cup {NaT}) \X OutcomeTypes, MaxOutcome)}

\* urls: a dict, so the file names are distinct; each with the status its GET answers
UrlItems ==
    {u \in SeqsUpTo(FileNames \X Statuses, MaxUrls) :
        \A i, j \in DOMAIN u : i # j => u[i][1] # u[j][1]}

NoResult == <<"running">>

LoadIdle ==
    /\ urls = <<>>
    /\ url_i = 1
    /\ data_dict = EmptyDict
    /\ printed = <<>>
    /\ gd_pc = "idle"
    /\ gd_result = NoResult

MergeIdle ==
    /\ intake_data = DataFrame(<<>>, <<>>)
    /\ outcome_data = DataFrame(<<>>, <<>>)
    /\ intake_in = intake_data
    /\ outcome_in = outcome_data
    /\ outcome_dict = EmptyDict
    /\ pc = "idle"
    /\ index = 1
    /\ returned = <<>>
    /\ pairs = <<>>
    /\ pops = [e \in Ids |-> 0]
    /\ nomatch = {}

(* ---- merge_intake_n_outcome ---- *)
InitMerge ==
    /\ intake_data \in IntakeFrames
    /\ outcome_data \in OutcomeFrames
    /\ intake_in = intake_data
    /\ outcome_in = outcome_data
    /\ outcome_dict = EmptyDict
    /\ pc = "idle"
    /\ index = 1
    /\ returned = <<>>
    /\ pairs = <<>>
    /\ pops = [e \in Ids |-> 0]
    /\ nomatch = {}
    /\ LoadIdle

\* the caller calls merge_intake_n_outcome(intake_data, outcome_data); line 89
CallMerge ==
    /\ pc = "idle"
    /\ Len(returned) < MaxCalls
    /\ outcome_dict' = NewOutcomeDict(outcome_dict)
    /\ pops' = [e \in Ids |-> 0]
    /\ nomatch' = {}
    /\ index' = 1
    /\ pc' = "build"
    /\ UNCHANGED <<intake_data, outcome_data, returned, pairs, intake_in, outcome_in>>
    /\ UNCHANGED loadVars

\* lines 90-95: one iteration of the loop over outcome_data.iterrows()
BuildRow ==
    /\ pc = "build"
    /\ index <= Len(outcome_data.rows)
    /\ outcome_dict' = DictAppend(outcome_dict,
                                  Cell(outcome_data, index, "animal_id"),
                                  Cell(outcome_data, index, "datetime"))
    /\ index' = index + 1
    /\ UNCHANGED <<intake_data, outcome_data, pc, returned, pairs, pops, nomatch, intake_in, outcome_in>>
    /\ UNCHANGED loadVars

\* line 98: intake_data['datetime_outcome'] = pd.NaT, on the frame the caller passed
AddColumn ==
    /\ pc = "build"
    /\ index > Len(outcome_data.rows)
    /\ intake_data' = SetColumn(intake_data, "datetime_outcome", NaT)
    /\ index' = 1
    /\ pc' = "scan"
    /\ UNCHANGED <<outcome_data, outcome_dict, returned, pairs, pops, nomatch, intake_in, outcome_in>>
    /\ UNCHANGED loadVars

\* lines 99-103: one iteration of the loop over intake_data.iterrows()
ScanRow ==
    /\ pc = "scan"
    /\ index <= Len(intake_data.rows)
    /\ LET id == Cell(intake_data, index, "animal_id")
       IN  IF id \in DOMAIN outcome_dict /\ Len(outcome_dict[id]) > 0
           THEN /\ intake_data' = SetAt(intake_data, index, "datetime_outcome",
                                        QueueFront(outcome_dict[id]))
                /\ outcome_dict' = [outcome_dict EXCEPT ![id] = PopFront(@)]
                /\ pops' = [pops EXCEPT ![id] = @ + 1]
                /\ UNCHANGED nomatch
           ELSE /\ nomatch' = nomatch \cup {index}
                /\ UNCHANGED <<intake_data, outcome_dict, pops>>
    /\ index' = index + 1
    /\ UNCHANGED <<outcome_data, pc, returned, pairs, intake_in, outcome_in>>
    /\ UNCHANGED loadVars

\* lines 106-113: merge, reset the index, return
MergeReturn ==
    /\ pc = "scan"
    /\ index > Len(intake_data.rows)
    /\ returned' = Append(returned, Merge(intake_data, outcome_data))
    /\ pairs' = Append(pairs, JoinPairs(intake_data, outcome_data))
    /\ pc' = "idle"
    /\ UNCHANGED <<intake_data, outcome_data, outcome_dict, index, pops, nomatch, intake_in, outcome_in>>
    /\ UNCHANGED loadVars

NextMerge == CallMerge \/ BuildRow \/ AddColumn \/ ScanRow \/ MergeReturn

SpecMerge == InitMerge /\ [][NextMerge]_vars

(* ---- get_data ---- *)
\* what pd.read_csv(url) yields for a file name
DataOf(name) == <<"DataFrame", name>>

\* line 22: response.status_code == 200
Succeeded_always(status) == TRUE
Succeeded(status) == status = HTTP_OK

\* line 16: the call starts with an empty data_dict
InitLoad ==
    /\ urls \in UrlItems
    /\ url_i = 1
    /\ data_dict = EmptyDict
    /\ printed = <<>>
    /\ gd_pc = "loop"
    /\ gd_result = NoResult
    /\ MergeIdle

\* lines 20-28: the GET answers 200, the data is read and stored
FetchStore ==
    /\ gd_pc = "loop"
    /\ url_i <= Len(urls)
    /\ Succeeded(urls[url_i][2])
    /\ LET name == urls[url_i][1]
       IN  /\ data_dict' = [n \in DOMAIN data_dict \cup {name} |->
                               IF n = name THEN DataOf(name) ELSE data_dict[n]]
           /\ printed' = Append(printed, <<"Successfully get", name>>)
    /\ url_i' = url_i + 1
    /\ UNCHANGED <<urls, gd_pc, gd_result>>
    /\ UNCHANGED mergeVars

\* lines 29-30: the GET answers something else, only a message is printed
FetchFailed ==
    /\ gd_pc = "loop"
    /\ url_i <= Len(urls)
    /\ ~Succeeded(urls[url_i][2])
    /\ printed' = Append(printed, <<"Failed to retrieve", urls[url_i][1], urls[url_i][2]>>)
    /\ url_i' = url_i + 1
    /\ UNCHANGED <<urls, data_dict, gd_pc, gd_result>>
    /\ UNCHANGED mergeVars

\* line 33: data_dict["intake"] raises KeyError
KeyErrorIntake ==
    /\ gd_pc = "loop"
    /\ url_i > Len(urls)
    /\ "intake" \notin DOMAIN data_dict
    /\ gd_result' = <<"KeyError", "intake">>
    /\ gd_pc' = "done"
    /\ UNCHANGED <<urls, url_i, data_dict, printed>>
    /\ UNCHANGED mergeVars

\* line 34: data_dict["outcome"] raises KeyError
KeyErrorOutcome ==
    /\ gd_pc = "loop"
    /\ url_i > Len(urls)
    /\ "intake" \in DOMAIN data_dict
    /\ "outcome" \notin DOMAIN data_dict
    /\ gd_result' = <<"KeyError", "outcome">>
    /\ gd_pc' = "done"
    /\ UNCHANGED <<urls, url_i, data_dict, printed>>
    /\ UNCHANGED mergeVars

\* lines 33-36: both lookups succeed, the pair is returned
ReturnData ==
    /\ gd_pc = "loop"
    /\ url_i > Len(urls)
    /\ "intake" \in DOMAIN data_dict
    /\ "outcome" \in DOMAIN data_dict
    /\ gd_result' = <<"return", data_dict["intake"], data_dict["outcome"]>>
    /\ gd_pc' = "done"
    /\ UNCHANGED <<urls, url_i, data_dict, printed>>
    /\ UNCHANGED mergeVars

NextLoad == FetchStore \/ FetchFailed \/ KeyErrorIntake \/ KeyErrorOutcome \/ ReturnData

SpecLoad == InitLoad /\ [][NextLoad]_vars

(* ---- vocabulary of the properties ---- *)
\* the datetimes of entity e in outcome-table row order
OutcomeTimes(e) ==
    LET rws == outcome_in.rows
        idx == SelectIdx([j \in 1 .. Len(rws) |-> rws[j][1] = e], 1, Len(rws))
    IN  [n \in 1 .. Len(idx) |-> rws[idx[n]][2]]

\* the positions of the outcome rows of entity e, in row order
OutcomeRowsOf(e) ==
    SelectIdx([j \in 1 .. Len(outcome_in.rows) |-> outcome_in.rows[j][1] = e],
              1, Len(outcome_in.rows))

\* the positions of the intake rows of entity e
IntakeRowsOf(e) == {i \in 1 .. Len(intake_in.rows) : intake_in.rows[i][1] = e}

\* k of intake row i: the number of earlier intake rows of the same entity
RankOf(i) == Cardinality({h \in IntakeRowsOf(intake_in.rows[i][1]) : h < i})

\* the queue of entity e, empty when e is not a key of outcome_dict
QueueOf(e) == IF e \in DOMAIN outcome_dict THEN outcome_dict[e] ELSE <<>>

\* a call has returned and no other is in progress
AfterCall == pc = "idle" /\ returned # <<>>

LastCall == Len(returned)

\* the cells of output row n of frame m that come from the outcome table
OutcomeAttrs(m, n) == SubSeq(m.rows[n], Len(intake_data.columns) + 1, Len(m.columns))

\* those cells when no outcome row joined
NullAttrs ==
    LET kept == RightKept(outcome_in)
    IN  [n \in 1 .. Len(kept) |-> NullOf(outcome_in.columns[kept[n]])]

\* the output rows of call c that outcome row j supplies
SuppliedBy(c, j) == {n \in 1 .. Len(pairs[c]) : pairs[c][n][2] = j}

(* ---- C1 ---- *)
\* C1: the returned table has exactly as many rows as the intake table and
\* every intake row appears exactly once in it.
C1_RowCountPreserved ==
    \A c \in 1 .. Len(returned) :
        /\ Len(returned[c].rows) = Len(intake_in.rows)
        /\ \A i \in 1 .. Len(intake_in.rows) :
               Cardinality({n \in 1 .. Len(pairs[c]) : pairs[c][n][1] = i}) = 1

(* ---- C2 ---- *)
\* C2: after a call, the k-th intake row of an entity (k from 0, intake row
\* order) holds the k-th outcome timestamp of that entity in outcome row
\* order when the entity has more than k outcome rows, and null otherwise;
\* every output row made from that intake row shows the same value.
C2_FifoPairing ==
    AfterCall =>
        \A i \in 1 .. Len(intake_in.rows) :
            LET e == intake_in.rows[i][1]
                k == RankOf(i)
                expected == IF k < Len(OutcomeTimes(e)) THEN OutcomeTimes(e)[k + 1] ELSE NaT
            IN  /\ Cell(intake_data, i, "datetime_outcome") = expected
                /\ \A n \in 1 .. Len(pairs[LastCall]) :
                       pairs[LastCall][n][1] = i
                           => Cell(returned[LastCall], n, "datetime_outcome") = expected

\* an entity with two intake rows paired in source order although that order
\* is not chronological: the first row gets the later outcome, the second an
\* outcome earlier than its own intake
C2_Witness ==
    /\ AfterCall
    /\ \E i, h \in 1 .. Len(intake_in.rows) :
           /\ i < h
           /\ intake_in.rows[i][1] = intake_in.rows[h][1]
           /\ Cell(intake_data, i, "datetime_outcome") > Cell(intake_data, h, "datetime_outcome")
           /\ Cell(intake_data, h, "datetime_outcome") # NaT
           /\ Cell(intake_data, h, "datetime_outcome") < Cell(intake_data, h, "datetime")

(* ---- C3 ---- *)
\* C3: an outcome row supplies the outcome attributes of at most one output row.
C3_OutcomeRowUsedOnce ==
    \A c \in 1 .. Len(returned) :
        \A j \in 1 .. Len(outcome_in.rows) : Cardinality(SuppliedBy(c, j)) <= 1

(* ---- C4 ---- *)
\* C4: when an entity has more outcome rows than intake rows, its outcome
\* rows beyond the first i (outcome row order) supply no output row.
C4_ExcessOutcomesDropped ==
    \A c \in 1 .. Len(returned) :
        \A e \in Ids :
            LET rws == OutcomeRowsOf(e)
                i == Cardinality(IntakeRowsOf(e))
            IN  \A n \in 1 .. Len(rws) : n > i => SuppliedBy(c, rws[n]) = {}

(* ---- C5 ---- *)
\* C5: a second call on the same two tables, the intake table being the one
\* the first call has already worked on, returns the same frame as the first.
C5_Idempotent ==
    \A c, d \in 1 .. Len(returned) : returned[c] = returned[d]

\* two calls have returned, the first left timestamps in a queue and both
\* paired some intake row
C5_Witness ==
    /\ pc = "idle"
    /\ Len(returned) >= 2
    /\ \E e \in Ids : QueueOf(e) # <<>>
    /\ \E n \in 1 .. Len(returned[2].rows) : Cell(returned[2], n, "datetime_outcome") # NaT

(* ---- C6 ---- *)
\* C6: an intake row scanned while its entity had no queue or an empty queue
\* keeps a null assigned timestamp and its output rows have all outcome
\* attribute columns null.
C6_UnmatchedRowsNull ==
    AfterCall =>
        \A i \in nomatch :
            /\ Cell(intake_data, i, "datetime_outcome") = NaT
            /\ \A n \in 1 .. Len(pairs[LastCall]) :
                   pairs[LastCall][n][1] = i
                       => OutcomeAttrs(returned[LastCall], n) = NullAttrs

(* ---- C7 ---- *)
\* C7: the call leaves both input tables as they were (same columns, same
\* cells), and a call never starts from a queue left by an earlier call.
C7_InputsUnmodified ==
    /\ intake_data = intake_in
    /\ outcome_data = outcome_in
    /\ (pc = "build" /\ index = 1 => outcome_dict = EmptyDict)

(* ---- C9 ---- *)
\* C9: throughout the intake scan, for every entity the pops made plus the
\* remaining queue length equal the number of its outcome rows, the remaining
\* queue is the suffix of its outcome timestamps after the popped ones, and
\* the pops never exceed the number of its outcome rows.
C9_QueueAccounting ==
    pc = "scan" =>
        \A e \in Ids :
            LET all == OutcomeTimes(e)
            IN  /\ pops[e] + Len(QueueOf(e)) = Len(all)
                /\ pops[e] <= Len(all)
                /\ QueueOf(e) = SubSeq(all, pops[e] + 1, Len(all))

\* mid-scan: an entity with distinct timestamps has been popped once and
\* still has a timestamp queued, another row found nothing to pop
C9_Witness ==
    /\ pc = "scan"
    /\ \E e \in Ids :
           /\ pops[e] >= 1
           /\ QueueOf(e) # <<>>
           /\ OutcomeTimes(e)[1] # QueueOf(e)[1]
    /\ nomatch # {}

(* ---- C10 ---- *)
\* C10: every output row keeps the entity of its intake row; an output row
\* with non-null outcome attributes carries the attributes of an outcome row
\* of that same entity whose timestamp equals the row's assigned timestamp;
\* an entity found only in the outcome table is in no output row.
C10_JoinOnEntityAndTime ==
    \A c \in 1 .. Len(returned) :
        \A n \in 1 .. Len(returned[c].rows) :
            LET m == returned[c]
                p == pairs[c][n]
            IN  /\ Cell(m, n, "animal_id") = intake_in.rows[p[1]][1]
                /\ OutcomeAttrs(m, n) # NullAttrs =>
                       /\ p[2] # 0
                       /\ outcome_in.rows[p[2]][1] = Cell(m, n, "animal_id")
                       /\ outcome_in.rows[p[2]][2] = Cell(m, n, "datetime_outcome")
                       /\ OutcomeAttrs(m, n)
                              = [q \in 1 .. Len(RightKept(outcome_in)) |->
                                    outcome_in.rows[p[2]][RightKept(outcome_in)[q]]]
                /\ Cell(m, n, "animal_id") \in {intake_in.rows[i][1] : i \in 1 .. Len(intake_in.rows)}

\* an output row paired with a timestamp that an entity absent from the
\* intake table also has in the outcome table
C10_Witness ==
    /\ AfterCall
    /\ \E n \in 1 .. Len(returned[LastCall].rows) :
           /\ OutcomeAttrs(returned[LastCall], n) # NullAttrs
           /\ \E j \in 1 .. Len(outcome_in.rows) :
                  /\ outcome_in.rows[j][1] # Cell(returned[LastCall], n, "animal_id")
                  /\ IntakeRowsOf(outcome_in.rows[j][1]) = {}
                  /\ outcome_in.rows[j][2] = Cell(returned[LastCall], n, "datetime_outcome")

(* ---- C8 ---- *)
\* the file names whose GET answered 200
Retrieved == {urls[i][1] : i \in {h \in 1 .. Len(urls) : urls[h][2] = HTTP_OK}}

\* C8: while the names are processed nothing is raised; a name whose GET
\* answered a non-200 status is left out of data_dict and has one diagnostic
\* printed; each name is fetched once; once all names are processed the call
\* returns the (intake, outcome) pair exactly when both were retrieved with
\* status 200 and otherwise ends with the KeyError of an absent name.
C8_LoaderOutcome ==
    /\ gd_pc = "loop" => gd_result = NoResult
    /\ gd_pc \in {"loop", "done"} =>
           /\ Len(printed) = url_i - 1
           /\ \A i \in 1 .. (url_i - 1) :
                  IF urls[i][2] = HTTP_OK
                  THEN /\ urls[i][1] \in DOMAIN data_dict
                       /\ printed[i] = <<"Successfully get", urls[i][1]>>
                  ELSE /\ urls[i][1] \notin DOMAIN data_dict
                       /\ printed[i] = <<"Failed to retrieve", urls[i][1], urls[i][2]>>
    /\ gd_pc = "done" =>
           /\ url_i = Len(urls) + 1
           /\ gd_result[1] \in {"return", "KeyError"}
           /\ gd_result[1] = "return" <=> {"intake", "outcome"} \subseteq Retrieved
           /\ gd_result[1] = "return" =>
                  gd_result = <<"return", DataOf("intake"), DataOf("outcome")>>
           /\ gd_result[1] = "KeyError" =>
                  /\ gd_result[2] \in {"intake", "outcome"} \ Retrieved
                  /\ ("intake" \notin Retrieved => gd_result[2] = "intake")

\* the call ended with a KeyError after a retrieval failed and a later name
\* was still fetched and stored
C8_Witness ==
    /\ gd_pc = "done"
    /\ gd_result[1] = "KeyError"
    /\ \E i, j \in 1 .. Len(urls) :
           /\ i < j
           /\ urls[i][2] # HTTP_OK
           /\ urls[j][2] = HTTP_OK
           /\ urls[j][1] \in DOMAIN data_dict

====
